---- MODULE Spec2Model ----
(***************************************************************************)
(* A model of the fixed-size worker thread pool of src/src/lib.rs:         *)
(* ThreadPool::new, ThreadPool::execute, the Worker receive loop and the   *)
(* Drop implementation that closes the channel and joins the workers.      *)
(*                                                                         *)
(* The main thread (the owner of the pool) and every worker thread have a  *)
(* program counter; each action is one atomic step of one thread.          *)
(***************************************************************************)
EXTENDS Integers, Sequences, FiniteSets, TLC

\* Largest size passed to ThreadPool::new (sizes 0..MaxSize are tried).
MaxSize == 2

\* Number of jobs the owner submits at most.
MaxJobs == 3

VARIABLES
    mainpc,         \* position of the owning thread
    mainPanicking,  \* the owning thread is unwinding from a panic
    size,           \* the argument of ThreadPool::new
    result,         \* what ThreadPool::new returned
    sender,         \* ThreadPool.sender : Option<Sender<Job>>
    channel,        \* "none" before mpsc::channel(), "open" after
    queue,          \* the jobs buffered in the channel, oldest first
    guard,          \* the threads holding the Mutex around the Receiver
    poisoned,       \* the Mutex was poisoned by a panic under the guard
    workers,        \* ThreadPool.workers : Vec<Worker>
    pc,             \* worker id -> position of its thread
    message,        \* worker id -> the value recv() returned to it
    joinIdx,        \* index of the drop loop over workers
    nextJob,        \* ordinal of the next job handed to execute
    accepted,       \* jobs whose send succeeded
    execCount,      \* job -> number of times job() was called on it
    dequeued,       \* the jobs in the order recv returned them, with the worker
                    \* that got each, whether the sender was gone by then and
                    \* whether a worker had panicked by then
    completed,      \* jobs whose call returned
    dropped,        \* jobs discarded without being called
    joined          \* the worker ids in the order join() returned for them

vars == <<mainpc, mainPanicking, size, result, sender, channel, queue, guard,
          poisoned, workers, pc, message, joinIdx, nextJob, accepted,
          execCount, dequeued, completed, dropped, joined>>

mainVars  == <<mainpc, mainPanicking, size, result, sender, joinIdx>>
ghostVars == <<accepted, execCount, dequeued, completed, dropped, joined>>

\* The Mutex guard is held by no thread.
Free == {}

JobIds == 1..MaxJobs

NoMessage == [kind |-> "none", id |-> 0, faulty |-> FALSE]
ErrMessage == [kind |-> "Err", id |-> 0, faulty |-> FALSE]
OkMessage(job) == [kind |-> "Ok", id |-> job.id, faulty |-> job.faulty]

NoResult == [kind |-> "none", message |-> ""]

\* A thread that has returned or unwound no longer owns its Arc of the receiver.
Ended(w) == pc[w] \in {"exited", "panicked"}

Alive == {w \in DOMAIN pc : ~Ended(w)}

ReceiverAliveAllWorkers ==
    channel = "open" /\ (mainpc = "spawn" \/ \A w \in DOMAIN pc : ~Ended(w))

\* The Receiver lives while some Arc to it does: the local of new(), or a thread.
ReceiverAlive == channel = "open" /\ (mainpc = "spawn" \/ Alive # {})

QueuedIds == {queue[i].id : i \in 1..Len(queue)}

Init ==
    /\ mainpc = "init"
    /\ mainPanicking = FALSE
    /\ size = 0
    /\ result = NoResult
    /\ sender = "None"
    /\ channel = "none"
    /\ queue = <<>>
    /\ guard = Free
    /\ poisoned = FALSE
    /\ workers = <<>>
    /\ pc = <<>>
    /\ message = <<>>
    /\ joinIdx = 0
    /\ nextJob = 1
    /\ accepted = {}
    /\ execCount = [j \in JobIds |-> 0]
    /\ dequeued = <<>>
    /\ completed = {}
    /\ dropped = {}
    /\ joined = <<>>

----------------------------------------------------------------------------
(* ThreadPool::new *)

InvalidSizeNever(sz) == sz < 0

InvalidSize(sz) == sz < 1

New(sz) ==
    /\ mainpc = "init"
    /\ size' = sz
    /\ IF InvalidSize(sz)
          THEN /\ mainpc' = "failed"
               /\ result' = [kind |-> "Err", message |-> "Invalid size"]
               /\ UNCHANGED <<sender, channel>>
          ELSE /\ mainpc' = "spawn"
               /\ sender' = "Some"
               /\ channel' = "open"
               /\ UNCHANGED result
    /\ UNCHANGED <<mainPanicking, queue, guard, poisoned, workers, pc, message,
                   joinIdx, nextJob>>
    /\ UNCHANGED ghostVars

SpawnMoreOneExtra == Len(workers) < size + 1

\* for id in 0..size
SpawnMore == Len(workers) < size

SpawnWorker ==
    /\ mainpc = "spawn"
    /\ SpawnMore
    /\ LET id == Len(workers) IN
          /\ workers' = Append(workers, [id |-> id, thread |-> "Some"])
          /\ pc' = pc @@ (id :> "lock")
          /\ message' = message @@ (id :> NoMessage)
    /\ UNCHANGED <<mainVars, channel, queue, guard, poisoned, nextJob>>
    /\ UNCHANGED ghostVars

NewReturn ==
    /\ mainpc = "spawn"
    /\ ~SpawnMore
    /\ mainpc' = "active"
    /\ result' = [kind |-> "Ok", message |-> ""]
    /\ UNCHANGED <<mainPanicking, size, sender, channel, queue, guard, poisoned,
                   workers, pc, message, joinIdx, nextJob>>
    /\ UNCHANGED ghostVars

----------------------------------------------------------------------------
(* ThreadPool::execute *)

Job(faulty) == [id |-> nextJob, faulty |-> faulty]

ExecuteOkAfterDrop(faulty) ==
    /\ mainpc \in {"active", "join", "joining"}
    /\ ~mainPanicking
    /\ nextJob <= MaxJobs
    /\ ReceiverAlive
    /\ queue' = Append(queue, Job(faulty))
    /\ accepted' = accepted \cup {nextJob}
    /\ nextJob' = nextJob + 1
    /\ UNCHANGED <<mainVars, channel, guard, poisoned, workers, pc, message>>
    /\ UNCHANGED <<execCount, dequeued, completed, dropped, joined>>

ExecuteOkWhenRoom(faulty) ==
    /\ mainpc = "active"
    /\ ~mainPanicking
    /\ nextJob <= MaxJobs
    /\ sender = "Some"
    /\ ReceiverAlive
    /\ Len(queue) < Cardinality(DOMAIN pc)
    /\ queue' = Append(queue, Job(faulty))
    /\ accepted' = accepted \cup {nextJob}
    /\ nextJob' = nextJob + 1
    /\ UNCHANGED <<mainVars, channel, guard, poisoned, workers, pc, message>>
    /\ UNCHANGED <<execCount, dequeued, completed, dropped, joined>>

\* send(job) succeeds while the Receiver exists; the channel is unbounded.
ExecuteOk(faulty) ==
    /\ mainpc = "active"
    /\ ~mainPanicking
    /\ nextJob <= MaxJobs
    /\ sender = "Some"
    /\ ReceiverAlive
    /\ queue' = Append(queue, Job(faulty))
    /\ accepted' = accepted \cup {nextJob}
    /\ nextJob' = nextJob + 1
    /\ UNCHANGED <<mainVars, channel, guard, poisoned, workers, pc, message>>
    /\ UNCHANGED <<execCount, dequeued, completed, dropped, joined>>

\* send(job) returns Err once the Receiver is gone, and unwrap() panics.
ExecuteErr(faulty) ==
    /\ mainpc = "active"
    /\ ~mainPanicking
    /\ nextJob <= MaxJobs
    /\ sender = "Some"
    /\ ~ReceiverAlive
    /\ mainPanicking' = TRUE
    /\ dropped' = dropped \cup {nextJob}
    /\ nextJob' = nextJob + 1
    /\ UNCHANGED <<mainpc, size, result, sender, joinIdx, channel, queue, guard,
                   poisoned, workers, pc, message>>
    /\ UNCHANGED <<accepted, execCount, dequeued, completed, joined>>

----------------------------------------------------------------------------
(* The worker thread: loop { receiver.lock().unwrap().recv(); match ... } *)

\* What the end of thread w does to the channel: the last Arc drops the
\* Receiver, and the jobs still buffered are discarded with it.
LastReceiver(w) == mainpc # "spawn" /\ Alive \subseteq {w}

EndThread(w) ==
    IF LastReceiver(w)
       THEN /\ queue' = <<>>
            /\ dropped' = dropped \cup QueuedIds
       ELSE UNCHANGED <<queue, dropped>>

LockIgnoresHolder(w) == TRUE

\* Mutex::lock returns only when no other thread holds the guard.
LockAvailable(w) == guard = Free

Lock(w) ==
    /\ w \in DOMAIN pc
    /\ pc[w] = "lock"
    /\ LockAvailable(w)
    /\ IF poisoned
          THEN /\ pc' = [pc EXCEPT ![w] = "panicked"]
               /\ EndThread(w)
               /\ UNCHANGED guard
          ELSE /\ pc' = [pc EXCEPT ![w] = "recv"]
               /\ guard' = guard \cup {w}
               /\ UNCHANGED <<queue, dropped>>
    /\ UNCHANGED <<mainVars, channel, poisoned, workers, message, nextJob>>
    /\ UNCHANGED <<accepted, execCount, dequeued, completed, joined>>

DisconnectedOnClose == sender = "None"

\* recv() reports Err only when no Sender is left and nothing is buffered.
Disconnected == sender = "None" /\ queue = <<>>

NextJobLast == Len(queue)

\* The channel hands out the oldest buffered job.
NextJobIndex == 1

RemoveAtKeeps(s, i) == s

\* The job handed out leaves the channel.
RemoveAt(s, i) == SubSeq(s, 1, i - 1) \o SubSeq(s, i + 1, Len(s))

Recv(w) ==
    /\ w \in DOMAIN pc
    /\ pc[w] = "recv"
    /\ IF Disconnected
          THEN /\ message' = [message EXCEPT ![w] = ErrMessage]
               /\ UNCHANGED <<queue, dequeued>>
          ELSE /\ queue # <<>>
               /\ message' = [message EXCEPT ![w] = OkMessage(queue[NextJobIndex])]
               /\ queue' = RemoveAt(queue, NextJobIndex)
               /\ dequeued' = Append(dequeued,
                                     [job |-> queue[NextJobIndex].id, worker |-> w,
                                      closed |-> sender = "None",
                                      afterFault |-> \E v \in DOMAIN pc :
                                                        pc[v] = "panicked"])
    /\ pc' = [pc EXCEPT ![w] = "unlock"]
    /\ UNCHANGED <<mainVars, channel, guard, poisoned, workers, nextJob>>
    /\ UNCHANGED <<accepted, execCount, completed, dropped, joined>>

GuardKeptDuringJob(w) == guard

\* The temporary MutexGuard is dropped at the end of the let statement.
GuardAfterStatement(w) == guard \ {w}

\* End of `let message = ...;` and the match on it.
Unlock(w) ==
    /\ w \in DOMAIN pc
    /\ pc[w] = "unlock"
    /\ guard' = GuardAfterStatement(w)
    /\ IF message[w].kind = "Ok"
          THEN /\ pc' = [pc EXCEPT ![w] = "run"]
               /\ execCount' = [execCount EXCEPT ![message[w].id] = @ + 1]
               /\ UNCHANGED <<queue, dropped>>
          ELSE /\ pc' = [pc EXCEPT ![w] = "exited"]
               /\ EndThread(w)
               /\ UNCHANGED execCount
    /\ UNCHANGED <<mainVars, channel, poisoned, workers, message, nextJob>>
    /\ UNCHANGED <<accepted, dequeued, completed, joined>>

\* job() returns; the loop goes round.
JobReturn(w) ==
    /\ w \in DOMAIN pc
    /\ pc[w] = "run"
    /\ ~message[w].faulty
    /\ completed' = completed \cup {message[w].id}
    /\ message' = [message EXCEPT ![w] = NoMessage]
    /\ pc' = [pc EXCEPT ![w] = "lock"]
    /\ UNCHANGED <<mainVars, channel, queue, guard, poisoned, workers, nextJob>>
    /\ UNCHANGED <<accepted, execCount, dequeued, dropped, joined>>

\* job() panics; the thread unwinds and is gone.
JobPanic(w) ==
    /\ w \in DOMAIN pc
    /\ pc[w] = "run"
    /\ message[w].faulty
    /\ poisoned' = (poisoned \/ w \in guard)
    /\ guard' = guard \ {w}
    /\ pc' = [pc EXCEPT ![w] = "panicked"]
    /\ EndThread(w)
    /\ UNCHANGED <<mainVars, channel, workers, message, nextJob>>
    /\ UNCHANGED <<accepted, execCount, dequeued, completed, joined>>

----------------------------------------------------------------------------
(* impl Drop for ThreadPool *)

KeepSender == sender

\* drop(self.sender.take())
TakeSender == "None"

DropSender ==
    /\ mainpc = "active"
    /\ sender' = TakeSender
    /\ mainpc' = "join"
    /\ joinIdx' = 0
    /\ UNCHANGED <<mainPanicking, size, result, channel, queue, guard, poisoned,
                   workers, pc, message, nextJob>>
    /\ UNCHANGED ghostVars

TakeHandleKeepsSlot ==
    /\ mainpc = "join"
    /\ joinIdx < Len(workers)
    /\ mainpc' = "joining"
    /\ UNCHANGED <<mainPanicking, size, result, sender, joinIdx, channel, queue,
                   guard, poisoned, workers, pc, message, nextJob>>
    /\ UNCHANGED ghostVars

\* for worker in &mut self.workers { if let Some(thread) = worker.thread.take()
TakeHandle ==
    /\ mainpc = "join"
    /\ joinIdx < Len(workers)
    /\ IF workers[joinIdx + 1].thread = "Some"
          THEN /\ workers' = [workers EXCEPT ![joinIdx + 1].thread = "None"]
               /\ mainpc' = "joining"
               /\ UNCHANGED joinIdx
          ELSE /\ joinIdx' = joinIdx + 1
               /\ UNCHANGED <<workers, mainpc>>
    /\ UNCHANGED <<mainPanicking, size, result, sender, channel, queue, guard,
                   poisoned, pc, message, nextJob>>
    /\ UNCHANGED ghostVars

JoinWithoutWaiting(w) == TRUE

\* thread.join() returns Ok once the thread function has returned.
JoinReady(w) == pc[w] = "exited"

JoinOk ==
    /\ mainpc = "joining"
    /\ JoinReady(workers[joinIdx + 1].id)
    /\ pc[workers[joinIdx + 1].id] # "panicked"
    /\ joined' = Append(joined, workers[joinIdx + 1].id)
    /\ joinIdx' = joinIdx + 1
    /\ mainpc' = "join"
    /\ UNCHANGED <<mainPanicking, size, result, sender, channel, queue, guard,
                   poisoned, workers, pc, message, nextJob>>
    /\ UNCHANGED <<accepted, execCount, dequeued, completed, dropped>>

JoinIgnoresPanic ==
    /\ mainpc = "joining"
    /\ pc[workers[joinIdx + 1].id] = "panicked"
    /\ joined' = Append(joined, workers[joinIdx + 1].id)
    /\ joinIdx' = joinIdx + 1
    /\ mainpc' = "join"
    /\ UNCHANGED <<mainPanicking, size, result, sender, channel, queue, guard,
                   poisoned, workers, pc, message, nextJob>>
    /\ UNCHANGED <<accepted, execCount, dequeued, completed, dropped>>

\* thread.join() returns Err for a thread that panicked, and unwrap() panics:
\* a second panic while unwinding aborts the process.
JoinPanic ==
    /\ mainpc = "joining"
    /\ pc[workers[joinIdx + 1].id] = "panicked"
    /\ mainpc' = IF mainPanicking THEN "aborted" ELSE "drop_panicked"
    /\ mainPanicking' = TRUE
    /\ UNCHANGED <<size, result, sender, joinIdx, channel, queue, guard,
                   poisoned, workers, pc, message, nextJob>>
    /\ UNCHANGED ghostVars

DropReturn ==
    /\ mainpc = "join"
    /\ joinIdx >= Len(workers)
    /\ mainpc' = "done"
    /\ UNCHANGED <<mainPanicking, size, result, sender, joinIdx, channel, queue,
                   guard, poisoned, workers, pc, message, nextJob>>
    /\ UNCHANGED ghostVars

----------------------------------------------------------------------------
(* Specifications *)

WorkerIds == 0..(MaxSize - 1)

WorkerStep(w) == Lock(w) \/ Recv(w) \/ Unlock(w) \/ JobReturn(w)

DropStep == TakeHandle \/ JoinOk \/ DropReturn

Next ==
    \/ \E sz \in 0..MaxSize : New(sz)
    \/ SpawnWorker
    \/ NewReturn
    \/ \E f \in BOOLEAN : ExecuteOk(f)
    \/ \E f \in BOOLEAN : ExecuteErr(f)
    \/ \E w \in WorkerIds : Lock(w)
    \/ \E w \in WorkerIds : Recv(w)
    \/ \E w \in WorkerIds : Unlock(w)
    \/ \E w \in WorkerIds : JobReturn(w)
    \/ \E w \in WorkerIds : JobPanic(w)
    \/ DropSender
    \/ TakeHandle
    \/ JoinOk
    \/ JoinPanic
    \/ DropReturn

Spec == Init /\ [][Next]_vars

\* The pool when no submitted job faults.
NextNoFault ==
    \/ \E sz \in 0..MaxSize : New(sz)
    \/ SpawnWorker
    \/ NewReturn
    \/ ExecuteOk(FALSE)
    \/ \E w \in WorkerIds : Lock(w)
    \/ \E w \in WorkerIds : Recv(w)
    \/ \E w \in WorkerIds : Unlock(w)
    \/ \E w \in WorkerIds : JobReturn(w)
    \/ DropSender
    \/ TakeHandle
    \/ JoinOk
    \/ DropReturn

NoFaultSpec == Init /\ [][NextNoFault]_vars

\* Every thread that can take a step eventually takes one; the owner is not
\* obliged to submit or to start the disposal, only to finish it.
Fairness ==
    /\ \A w \in WorkerIds : WF_vars(WorkerStep(w))
    /\ WF_vars(DropStep)

FairNoFaultSpec == NoFaultSpec /\ Fairness

\* The faulting jobs handed to execute so far: still buffered, or held by the
\* worker that took them (a panicked worker keeps what it was running).
FaultySubmitted ==
    {queue[i].id : i \in {k \in 1..Len(queue) : queue[k].faulty}}
        \cup {message[w].id : w \in {v \in DOMAIN message : message[v].faulty}}

ExecuteFirstFault == FaultySubmitted = {} /\ ExecuteOk(TRUE)

\* The pool when at most one submitted job faults.
NextOneFault ==
    \/ \E sz \in 0..MaxSize : New(sz)
    \/ SpawnWorker
    \/ NewReturn
    \/ ExecuteOk(FALSE)
    \/ ExecuteFirstFault
    \/ \E f \in BOOLEAN : ExecuteErr(f)
    \/ \E w \in WorkerIds : Lock(w)
    \/ \E w \in WorkerIds : Recv(w)
    \/ \E w \in WorkerIds : Unlock(w)
    \/ \E w \in WorkerIds : JobReturn(w)
    \/ \E w \in WorkerIds : JobPanic(w)
    \/ DropSender
    \/ TakeHandle
    \/ JoinOk
    \/ JoinPanic
    \/ DropReturn

FairOneFaultSpec == Init /\ [][NextOneFault]_vars /\ Fairness

----------------------------------------------------------------------------
(* The states of the pool *)

Active == mainpc = "active"

Closing == mainpc \in {"join", "joining"}

Terminated == mainpc = "done"

PoolExists == mainpc \in {"active", "join", "joining", "done"}

Panicked == {w \in DOMAIN pc : pc[w] = "panicked"}

Running == {w \in DOMAIN pc : pc[w] = "run"}

Dequeuing == {w \in DOMAIN pc : pc[w] \in {"recv", "unlock"}}

DequeuedJobs == {dequeued[i].job : i \in 1..Len(dequeued)}

----------------------------------------------------------------------------
(* Properties *)

\* C1: with no faulting job, no job is called more than once, and only jobs
\* that were submitted are called or held by a worker.
AtMostOnce ==
    /\ \A j \in JobIds :
          /\ execCount[j] \in {0, 1}
          /\ execCount[j] = 1 => j \in accepted
    /\ \A w \in Running : message[w].id \in accepted

\* More jobs than workers were submitted and each was called exactly once.
AtMostOnceWitness ==
    /\ size >= 1
    /\ Cardinality(accepted) > size
    /\ \A j \in accepted : execCount[j] = 1

\* C2: with no faulting job and fair scheduling, every job accepted by
\* execute is eventually run to completion by a worker.
EveryJobRuns == \A j \in JobIds : (j \in accepted) ~> (j \in completed)

\* A job that was still buffered when the sender was dropped has completed.
EveryJobRunsWitness ==
    \E i \in 1..Len(dequeued) :
        /\ dequeued[i].closed
        /\ dequeued[i].job \in completed

\* C3: with no faulting job, when drop has returned every submitted job has
\* completed: none is buffered, none is running, none was discarded.
DisposalWaitsForJobs ==
    Terminated =>
        /\ accepted \subseteq completed
        /\ queue = <<>>
        /\ Running = {}
        /\ dropped = {}

\* drop returned after all MaxJobs jobs, one of them dequeued after the close.
DisposalWaitsForJobsWitness ==
    /\ Terminated
    /\ Cardinality(accepted) = MaxJobs
    /\ \E i \in 1..Len(dequeued) : dequeued[i].closed

\* C4: with no faulting job and fair scheduling, once the disposal has begun
\* every worker leaves its loop and drop returns with all workers joined.
ShutdownTerminates ==
    Closing ~> (/\ Terminated
                /\ \A w \in DOMAIN pc : pc[w] = "exited"
                /\ Len(joined) = size)

\* The sender is gone while one worker is blocked in recv under the guard and
\* another waits for the guard.
ShutdownTerminatesWitness ==
    /\ Closing
    /\ sender = "None"
    /\ queue = <<>>
    /\ \E w1, w2 \in DOMAIN pc :
          /\ w1 # w2
          /\ pc[w1] = "recv" /\ w1 \in guard
          /\ pc[w2] = "lock"

\* C5: new(N) with N >= 1 does not fail, and the pool it returns has exactly
\* N workers, with ids 0..N-1, in every later state.
WorkerCountFixed ==
    /\ (mainpc # "init" /\ size >= 1) => mainpc # "failed"
    /\ PoolExists =>
          /\ size >= 1
          /\ Len(workers) = size
          /\ DOMAIN pc = 0..(size - 1)
          /\ \A i \in 1..Len(workers) : workers[i].id = i - 1

\* A pool of the largest size has taken jobs and has been disposed.
WorkerCountFixedWitness ==
    /\ Terminated
    /\ size = MaxSize
    /\ Len(workers) = MaxSize
    /\ accepted # {}

\* C6: new(0) fails with an error whose message is not empty, and leaves
\* everything else as it was: no channel, no sender, no worker, no thread.
InvalidSizeFails ==
    [][(mainpc = "init" /\ size' < 1) =>
          /\ mainpc' = "failed"
          /\ result'.kind = "Err"
          /\ result'.message # ""
          /\ UNCHANGED <<sender, channel, queue, guard, poisoned, workers, pc,
                         message>>]_vars

\* new(0) has returned its error.
InvalidSizeFailsWitness ==
    /\ mainpc = "failed"
    /\ size = 0
    /\ result.kind = "Err"

\* C7: at most one worker is between acquiring the guard and releasing it.
OneDequeuer ==
    /\ Cardinality(Dequeuing) <= 1
    /\ Cardinality(guard) <= 1
    /\ Dequeuing \subseteq guard

\* One worker is inside recv while another one waits for the guard.
OneDequeuerWitness ==
    \E w1, w2 \in DOMAIN pc :
        /\ w1 # w2
        /\ pc[w1] = "recv"
        /\ pc[w2] = "lock"

\* C8: a worker that is running a job does not hold the guard.
NoGuardDuringJob == \A w \in Running : w \notin guard

\* One worker runs a job while another one holds the guard.
NoGuardDuringJobWitness ==
    \E w1, w2 \in DOMAIN pc :
        /\ pc[w1] = "run"
        /\ pc[w2] = "recv"
        /\ guard = {w2}

\* C9: running jobs do not serialize the workers: a worker waiting for the
\* guard is only ever kept waiting by a worker that is dequeuing, never by
\* one that is running a job (so two jobs can run at once: the witness).
JobsDoNotBlockDequeue ==
    \A w \in DOMAIN pc :
        (pc[w] = "lock" /\ ~ENABLED Lock(w)) =>
            \E h \in guard : h # w /\ pc[h] \in {"recv", "unlock"}

\* Two workers are running two different jobs at the same time.
TwoJobsAtOnce ==
    \E w1, w2 \in DOMAIN pc :
        /\ w1 # w2
        /\ pc[w1] = "run"
        /\ pc[w2] = "run"
        /\ message[w1].id # message[w2].id

\* C10: jobs leave the channel in the order they were submitted: a job is
\* dequeued only after every job accepted before it.
FifoDequeue ==
    /\ \A i, k \in 1..Len(dequeued) :
          i < k => dequeued[i].job < dequeued[k].job
    /\ \A j \in DequeuedJobs :
          \A a \in accepted : a < j => a \in DequeuedJobs
    /\ \A i, k \in 1..Len(queue) : i < k => queue[i].id < queue[k].id

\* Two workers took jobs 1 and 2 in order, and job 2 completed first.
FifoDequeueWitness ==
    /\ Len(dequeued) >= 2
    /\ dequeued[1].worker # dequeued[2].worker
    /\ dequeued[2].job \in completed
    /\ dequeued[1].job \notin completed

\* C11: the pool only moves Active -> Closing -> Terminated: no step enters
\* Active except the return of new, Closing is entered only from Active (and
\* empties the sender slot), Terminated only from Closing and is never left,
\* and a sender slot that is empty is never filled again.
OneWayLifecycle ==
    [][/\ Active' => (Active \/ mainpc = "spawn")
       /\ Closing' => (Active \/ Closing)
       /\ Terminated' => (Closing \/ Terminated)
       /\ Terminated => Terminated'
       /\ (Active /\ ~Active') => (Closing' /\ sender' = "None")
       /\ (sender = "None" /\ mainpc # "init") => sender' = "None"]_vars

\* A pool that took jobs has gone through Closing and reached Terminated.
OneWayLifecycleWitness ==
    /\ Terminated
    /\ sender = "None"
    /\ accepted # {}
    /\ Len(joined) = size

\* C12: once the sender has been dropped no job is enqueued any more: from
\* then on no step adds a job to the accepted ones or to the channel.
NoSubmitAfterClose ==
    [][(sender = "None" \/ Closing \/ Terminated) =>
          /\ accepted' = accepted
          /\ nextJob' = nextJob
          /\ QueuedIds' \subseteq QueuedIds
          /\ Len(queue') <= Len(queue)]_vars

\* The pool is closing with jobs still buffered and more jobs left to submit.
NoSubmitAfterCloseWitness ==
    /\ Closing
    /\ sender = "None"
    /\ queue # <<>>
    /\ nextJob <= MaxJobs

\* C13: submission never waits for capacity: while the pool is Active with a
\* live worker, execute can complete at once, whatever the number of jobs
\* buffered and however many workers are busy.
SubmitNeverBlocks ==
    (Active /\ Alive # {} /\ nextJob <= MaxJobs) =>
        \A f \in BOOLEAN : ENABLED ExecuteOk(f)

\* Every worker is busy running a job, as many jobs as there are workers are
\* buffered besides, and the owner has one more job to submit.
SubmitNeverBlocksWitness ==
    /\ Active
    /\ Alive # {}
    /\ Alive \subseteq Running
    /\ Len(queue) >= Cardinality(DOMAIN pc)
    /\ nextJob <= MaxJobs

\* C14: when one job panics in a pool of two or more workers, the worker that
\* ran it is gone for good and holds nothing, the guard is neither held by
\* it nor poisoned, no other worker is lost, and under fair scheduling the
\* other workers still complete every job that does not fault.
FaultLeavesPoolWorking ==
    /\ [](/\ ~poisoned
          /\ Cardinality(Panicked) <= 1
          /\ Panicked \cap guard = {})
    /\ [][\A w \in DOMAIN pc :
             pc[w] = "panicked" =>
                 (pc'[w] = "panicked" /\ message'[w] = message[w])]_vars
    /\ \A j \in JobIds :
          (size >= 2 /\ j \in accepted /\ j \notin FaultySubmitted)
              ~> (j \in completed)

\* In a pool of two or more workers one has panicked, and a job submitted
\* after the faulting one was dequeued after the panic and has completed.
FaultLeavesPoolWorkingWitness ==
    /\ size >= 2
    /\ \E w \in Panicked :
          \E i \in 1..Len(dequeued) :
              /\ dequeued[i].afterFault
              /\ dequeued[i].worker # w
              /\ dequeued[i].job > message[w].id
              /\ dequeued[i].job \in completed

\* C15: with no faulting job, a worker thread has ended only if the sender
\* has been dropped and no job is buffered; no worker ends while the pool is
\* Active, and none ends by a panic.
ExitOnlyWhenClosed ==
    /\ \A w \in DOMAIN pc :
          Ended(w) => (pc[w] = "exited" /\ sender = "None" /\ queue = <<>>)
    /\ \A w \in DOMAIN pc :
          (pc[w] = "unlock" /\ message[w].kind = "Err") =>
              (sender = "None" /\ queue = <<>>)

\* One worker has left its loop, after jobs were run, while another one is
\* still on its way out.
ExitOnlyWhenClosedWitness ==
    /\ completed # {}
    /\ \E w1, w2 \in DOMAIN pc :
          /\ pc[w1] = "exited"
          /\ ~Ended(w2)

\* C16: a worker's thread-handle slot is occupied from its construction until
\* drop takes it and vacant from then on: while the pool is being built or is
\* Active every slot is occupied, during and after the disposal exactly the
\* slots the drop loop has reached are vacant, and a vacant slot stays vacant.
HandleSlotLifecycle ==
    /\ [](mainpc \in {"spawn", "active", "join", "joining", "done"} =>
            \A i \in 1..Len(workers) :
                workers[i].thread = "None" <=>
                    /\ Closing \/ Terminated
                    /\ \/ i <= joinIdx
                       \/ (i = joinIdx + 1 /\ mainpc = "joining"))
    /\ [][\A i \in 1..Len(workers) :
             workers[i].thread = "None" => workers'[i].thread = "None"]_vars

\* The drop loop has taken the handle of worker 0 and not yet that of worker 1.
HandleSlotLifecycleWitness ==
    /\ mainpc = "join"
    /\ joinIdx = 1
    /\ Len(workers) >= 2
    /\ workers[1].thread = "None"
    /\ workers[2].thread = "Some"

\* C17: drop empties the sender slot before it takes or joins any handle, and
\* joins the workers in ascending index order: the k-th join to return is
\* that of worker k-1, whose thread has returned, and the worker being joined
\* is the one after all those already joined.
JoinInIndexOrder ==
    /\ \A i \in 1..Len(joined) :
          /\ joined[i] = i - 1
          /\ pc[joined[i]] = "exited"
    /\ Len(joined) <= joinIdx
    /\ (Closing \/ Terminated) => Len(joined) = joinIdx
    /\ (joined # <<>> \/ \E i \in 1..Len(workers) : workers[i].thread = "None")
          => sender = "None"

\* drop waits in the join of worker 0, which is still running, although the
\* thread of worker 1 has already returned and is not joined yet.
JoinInIndexOrderWitness ==
    /\ mainpc = "joining"
    /\ joinIdx = 0
    /\ joined = <<>>
    /\ Len(workers) >= 2
    /\ pc[1] = "exited"
    /\ ~Ended(0)

\* C18: execute fails only when the receiver is gone, and it is gone only
\* when every worker thread has ended: a submit made while a worker is alive
\* appends the job to the channel; a submit made when all workers have ended
\* enqueues nothing and panics in the owner; buffered jobs are discarded
\* only by the end of the last worker, and a discarded job was never called.
SubmitFailsOnlyWithoutReceiver ==
    /\ [][nextJob' # nextJob =>
             IF Alive # {}
                THEN /\ accepted' = accepted \cup {nextJob}
                     /\ queue' = Append(queue, queue'[Len(queue')])
                     /\ queue'[Len(queue')].id = nextJob
                     /\ mainPanicking' = mainPanicking
                     /\ dropped' = dropped
                ELSE /\ accepted' = accepted
                     /\ queue' = queue
                     /\ mainPanicking'
                     /\ dropped' = dropped \cup {nextJob}]_vars
    /\ [][dropped' # dropped => Alive' = {}]_vars
    /\ []((PoolExists /\ Alive = {}) =>
            /\ queue = <<>>
            /\ (accepted \ DequeuedJobs) \subseteq dropped)
    /\ [](\A j \in dropped : execCount[j] = 0)

\* Every worker has died of a faulting job while the pool was Active: a job
\* that had been accepted was discarded unexecuted, and a later submit failed.
SubmitFailsOnlyWithoutReceiverWitness ==
    /\ Active
    /\ mainPanicking
    /\ Alive = {}
    /\ Panicked = DOMAIN pc
    /\ accepted \cap dropped # {}
    /\ dropped \ accepted # {}

\* C19: with a worker thread that panicked, drop does not run to completion:
\* the pool never reaches Terminated; drop stops in the join of the panicked
\* worker, having joined exactly the workers before it, and the handles of
\* the workers after it are never taken or joined.
DropFailsAtPanickedWorker ==
    /\ [](Terminated => (Panicked = {} /\ Len(joined) = Len(workers)))
    /\ [](mainpc \in {"drop_panicked", "aborted"} =>
            /\ joinIdx < Len(workers)
            /\ pc[workers[joinIdx + 1].id] = "panicked"
            /\ Len(joined) = joinIdx
            /\ \A i \in 1..joinIdx : joined[i] = workers[i].id
            /\ \A i \in (joinIdx + 2)..Len(workers) :
                  workers[i].thread = "Some")
    /\ [][(mainpc \in {"drop_panicked", "aborted"}) =>
             (mainpc' = mainpc /\ joined' = joined /\ workers' = workers)]_vars

\* drop has panicked in the join of worker 0; worker 1 has left its loop and
\* its handle was never taken.
DropFailsAtPanickedWorkerWitness ==
    /\ mainpc = "drop_panicked"
    /\ joinIdx = 0
    /\ Len(workers) >= 2
    /\ pc[0] = "panicked"
    /\ pc[1] = "exited"
    /\ workers[2].thread = "Some"
    /\ joined = <<>>

\* Nothing is buffered, no job is running and no worker can take a step.
Quiescent ==
    /\ queue = <<>>
    /\ Running = {}
    /\ \A w \in DOMAIN pc : ~ENABLED WorkerStep(w)

\* C20: with no faulting job, no worker thread ends while the pool is being
\* built or is Active, and in every quiescent Active state (nothing
\* buffered, no job running, no worker able to step) exactly one worker is
\* blocked in recv holding the guard and all the others wait for the guard.
IdleWorkersShape ==
    /\ (mainpc \in {"spawn", "active"}) => (\A w \in DOMAIN pc : ~Ended(w))
    /\ (Active /\ Quiescent) =>
          \E h \in DOMAIN pc :
              /\ pc[h] = "recv"
              /\ guard = {h}
              /\ \A w \in DOMAIN pc \ {h} : pc[w] = "lock"

\* A pool of two workers has run a job and is idle again: one worker blocked
\* in recv with the guard, the other waiting for the guard.
IdleWorkersShapeWitness ==
    /\ Active
    /\ Quiescent
    /\ Cardinality(DOMAIN pc) >= 2
    /\ completed # {}

====
